---- MODULE Spec2Model ----
(***************************************************************************)
(* Model of growth_energy_sim.simulate_growth_energy.                      *)
(*                                                                         *)
(* The function computes with Python floats, i.e. IEEE 754 binary64 with   *)
(* round-to-nearest, ties-to-even.  TLC's integers are 32 bits wide, so    *)
(* the 53-bit significands and their 106-bit products are kept as          *)
(* little-endian sequences of 12-bit limbs (a natural number is the        *)
(* sequence of its limbs with no leading zero limb; zero is << >>).        *)
(***************************************************************************)
EXTENDS Integers, Sequences, FiniteSets, TLC

(***************************************************************************)
(* Natural numbers of arbitrary size.                                      *)
(***************************************************************************)
LimbBits == 12

LimbBase == 2 ^ LimbBits

Max(a, b) == IF a >= b THEN a ELSE b

Min(a, b) == IF a <= b THEN a ELSE b

Limb(a, i) == IF i >= 1 /\ i <= Len(a) THEN a[i] ELSE 0

RECURSIVE NatNorm(_)
NatNorm(a) ==
    IF a = << >> THEN << >>
    ELSE IF a[Len(a)] = 0 THEN NatNorm(SubSeq(a, 1, Len(a) - 1))
    ELSE a

RECURSIVE NatFromInt(_)
NatFromInt(n) ==
    IF n = 0 THEN << >>
    ELSE << n % LimbBase >> \o NatFromInt(n \div LimbBase)

RECURSIVE NatAddFrom(_, _, _, _)
NatAddFrom(a, b, i, carry) ==
    IF i > Len(a) /\ i > Len(b)
    THEN (IF carry = 0 THEN << >> ELSE << carry >>)
    ELSE LET s == Limb(a, i) + Limb(b, i) + carry
         IN  << s % LimbBase >> \o NatAddFrom(a, b, i + 1, s \div LimbBase)

NatAdd(a, b) == NatAddFrom(a, b, 1, 0)

\* a - b for a >= b
RECURSIVE NatSubFrom(_, _, _, _)
NatSubFrom(a, b, i, borrow) ==
    IF i > Len(a) THEN << >>
    ELSE LET s == Limb(a, i) - Limb(b, i) - borrow
         IN  IF s < 0
             THEN << s + LimbBase >> \o NatSubFrom(a, b, i + 1, 1)
             ELSE << s >> \o NatSubFrom(a, b, i + 1, 0)

NatSub(a, b) == NatNorm(NatSubFrom(a, b, 1, 0))

\* sum of a[i] * b[k + 1 - i] over the limbs of column k
RECURSIVE NatMulColumn(_, _, _, _)
NatMulColumn(a, b, k, i) ==
    IF i > Len(a) \/ i > k THEN 0
    ELSE Limb(a, i) * Limb(b, k + 1 - i) + NatMulColumn(a, b, k, i + 1)

RECURSIVE NatMulFrom(_, _, _, _)
NatMulFrom(a, b, k, carry) ==
    IF k > Len(a) + Len(b) THEN << >>
    ELSE LET s == NatMulColumn(a, b, k, 1) + carry
         IN  << s % LimbBase >> \o NatMulFrom(a, b, k + 1, s \div LimbBase)

NatMul(a, b) == NatNorm(NatMulFrom(a, b, 1, 0))

\* a * n for 0 <= n < 2^18
RECURSIVE NatMulSmallFrom(_, _, _, _)
NatMulSmallFrom(a, n, i, carry) ==
    IF i > Len(a) THEN NatFromInt(carry)
    ELSE LET s == a[i] * n + carry
         IN  << s % LimbBase >> \o NatMulSmallFrom(a, n, i + 1, s \div LimbBase)

NatMulSmall(a, n) == NatNorm(NatMulSmallFrom(a, n, 1, 0))

Zeros(n) == [i \in 1..n |-> 0]

NatShl(a, k) ==
    IF a = << >> THEN << >>
    ELSE Zeros(k \div LimbBits) \o NatMulSmall(a, 2 ^ (k % LimbBits))

\* floor(a / 2^k)
NatShr(a, k) ==
    LET drop == k \div LimbBits
        r    == k % LimbBits
        n    == Len(a) - drop
    IN  IF n <= 0 THEN << >>
        ELSE NatNorm([i \in 1..n |->
                 (Limb(a, i + drop) \div 2 ^ r)
                 + (Limb(a, i + drop + 1) % 2 ^ r) * 2 ^ (LimbBits - r)])

RECURSIVE IntBitLen(_)
IntBitLen(n) == IF n = 0 THEN 0 ELSE 1 + IntBitLen(n \div 2)

NatBitLen(a) ==
    IF a = << >> THEN 0
    ELSE (Len(a) - 1) * LimbBits + IntBitLen(a[Len(a)])

\* bit i of a, the least significant bit being bit 0
NatBit(a, i) == (Limb(a, i \div LimbBits + 1) \div 2 ^ (i % LimbBits)) % 2

\* whether a mod 2^k is not zero
NatLowBits(a, k) ==
    \/ \E i \in 1..Min(Len(a), k \div LimbBits) : a[i] # 0
    \/ Limb(a, k \div LimbBits + 1) % 2 ^ (k % LimbBits) # 0

\* -1, 0, 1 as a < b, a = b, a > b
RECURSIVE NatCmpFrom(_, _, _)
NatCmpFrom(a, b, i) ==
    IF i = 0 THEN 0
    ELSE IF a[i] < b[i] THEN -1
    ELSE IF a[i] > b[i] THEN 1
    ELSE NatCmpFrom(a, b, i - 1)

NatCmp(a, b) ==
    IF Len(a) < Len(b) THEN -1
    ELSE IF Len(a) > Len(b) THEN 1
    ELSE NatCmpFrom(a, b, Len(a))

\* quotient and remainder of a by d, 0 < d < 2^18, from the top limb down
RECURSIVE NatDivSmallFrom(_, _, _, _)
NatDivSmallFrom(a, d, i, rem) ==
    IF i = 0 THEN [q |-> << >>, r |-> rem]
    ELSE LET cur  == rem * LimbBase + a[i]
             rest == NatDivSmallFrom(a, d, i - 1, cur % d)
         IN  [q |-> rest.q \o << cur \div d >>, r |-> rest.r]

NatDivSmall(a, d) ==
    LET res == NatDivSmallFrom(a, d, Len(a), 0)
    IN  [q |-> NatNorm(res.q), r |-> res.r]

(***************************************************************************)
(* Python floats (IEEE 754 binary64).  A float is a record                 *)
(*   [cls, neg, m, e]   cls = "nan" | "inf" | "fin"                        *)
(* and a finite one has the value (-1)^neg * m * 2^e, where either m has   *)
(* exactly Precision bits and MinExp <= e <= MaxExp (normal), or m has     *)
(* fewer bits and e = MinExp (subnormal), or m = << >> and e = 0 (zero).   *)
(* Every value has one representation, so record equality is bit equality. *)
(***************************************************************************)
Precision == 53

MinExp == -1074

MaxExp == 971

NaN == [cls |-> "nan", neg |-> FALSE, m |-> << >>, e |-> 0]

Inf(neg) == [cls |-> "inf", neg |-> neg, m |-> << >>, e |-> 0]

Zero(neg) == [cls |-> "fin", neg |-> neg, m |-> << >>, e |-> 0]

IsNaN(x) == x.cls = "nan"

IsInf(x) == x.cls = "inf"

IsZero(x) == x.cls = "fin" /\ x.m = << >>

IsFinite(x) == x.cls = "fin"

\* The float nearest to (-1)^neg * M * 2^E, ties to even; overflow to infinity.
Round(neg, M, E) ==
    IF M = << >> THEN Zero(neg)
    ELSE
      LET len   == NatBitLen(M)
          e1    == Max(E + len - Precision, MinExp)
          shift == e1 - E
          q     == IF shift <= 0 THEN NatShl(M, -shift) ELSE NatShr(M, shift)
          half  == shift > 0 /\ NatBit(M, shift - 1) = 1
          stick == shift > 1 /\ NatLowBits(M, shift - 1)
          up    == half /\ (stick \/ NatBit(q, 0) = 1)
          q1    == IF up THEN NatAdd(q, << 1 >>) ELSE q
          carry == NatBitLen(q1) > Precision
          m2    == IF carry THEN NatShr(q1, 1) ELSE q1
          e2    == IF carry THEN e1 + 1 ELSE e1
      IN  IF m2 = << >> THEN Zero(neg)
          ELSE IF e2 > MaxExp THEN Inf(neg)
          ELSE [cls |-> "fin", neg |-> neg, m |-> m2, e |-> e2]

\* a float literal num/den of the source text (den a power of ten below 2^18),
\* converted as the Python compiler converts it: correctly rounded
Lit(num, den) ==
    LET n   == IF num < 0 THEN -num ELSE num
        k   == Precision + 2 + IntBitLen(den)
        d   == NatDivSmall(NatShl(NatFromInt(n), k), den)
        odd == IF d.r = 0 THEN << >> ELSE << 1 >>
    IN  Round(num < 0, NatAdd(NatShl(d.q, 1), odd), -(k + 1))

\* x * y
FMul(x, y) ==
    LET neg == x.neg # y.neg
    IN  IF IsNaN(x) \/ IsNaN(y) THEN NaN
        ELSE IF (IsInf(x) /\ IsZero(y)) \/ (IsZero(x) /\ IsInf(y)) THEN NaN
        ELSE IF IsInf(x) \/ IsInf(y) THEN Inf(neg)
        ELSE IF IsZero(x) \/ IsZero(y) THEN Zero(neg)
        ELSE Round(neg, NatMul(x.m, y.m), x.e + y.e)

\* x + y
FAdd(x, y) ==
    IF IsNaN(x) \/ IsNaN(y) THEN NaN
    ELSE IF IsInf(x) /\ IsInf(y) THEN (IF x.neg = y.neg THEN x ELSE NaN)
    ELSE IF IsInf(x) THEN x
    ELSE IF IsInf(y) THEN y
    ELSE IF IsZero(x) /\ IsZero(y) THEN Zero(x.neg /\ y.neg)
    ELSE IF IsZero(x) THEN y
    ELSE IF IsZero(y) THEN x
    ELSE
      \* An operand more than Precision + 2 bits below the other's last bit only
      \* decides the direction of the rounding: one sticky unit stands for it.
      LET far == Precision + 3
          e   == IF x.e - y.e > far THEN x.e - 2
                 ELSE IF y.e - x.e > far THEN y.e - 2
                 ELSE Min(x.e, y.e)
          mx  == IF x.e < e THEN << 1 >> ELSE NatShl(x.m, x.e - e)
          my  == IF y.e < e THEN << 1 >> ELSE NatShl(y.m, y.e - e)
          c   == NatCmp(mx, my)
      IN  IF x.neg = y.neg THEN Round(x.neg, NatAdd(mx, my), e)
          ELSE IF c = 0 THEN Zero(FALSE)
          ELSE IF c > 0 THEN Round(x.neg, NatSub(mx, my), e)
          ELSE Round(y.neg, NatSub(my, mx), e)

FNeg(x) == IF IsNaN(x) THEN x ELSE [x EXCEPT !.neg = ~x.neg]

\* x - y
FSub(x, y) == FAdd(x, FNeg(y))

\* abs(x)
FAbs(x) == IF IsNaN(x) THEN x ELSE [x EXCEPT !.neg = FALSE]

\* -1, 0, 1 as x < y, x == y, x > y, for x and y not NaN
FCmp(x, y) ==
    LET mag(u, v) ==      \* compares |u| and |v|
            IF IsInf(u) /\ IsInf(v) THEN 0
            ELSE IF IsInf(u) THEN 1
            ELSE IF IsInf(v) THEN -1
            ELSE IF IsZero(u) /\ IsZero(v) THEN 0
            ELSE IF IsZero(u) THEN -1
            ELSE IF IsZero(v) THEN 1
            ELSE LET tu == u.e + NatBitLen(u.m)
                     tv == v.e + NatBitLen(v.m)
                     e  == Min(u.e, v.e)
                 IN  IF tu < tv THEN -1
                     ELSE IF tu > tv THEN 1
                     ELSE NatCmp(NatShl(u.m, u.e - e), NatShl(v.m, v.e - e))
    IN  IF IsZero(x) /\ IsZero(y) THEN 0
        ELSE IF x.neg /\ ~y.neg THEN -1
        ELSE IF ~x.neg /\ y.neg THEN 1
        ELSE IF x.neg THEN -mag(x, y)
        ELSE mag(x, y)

\* x == y, x >= y, x < y as Python evaluates them: a comparison with NaN is false
FEq(x, y) == ~IsNaN(x) /\ ~IsNaN(y) /\ FCmp(x, y) = 0

FGe(x, y) == ~IsNaN(x) /\ ~IsNaN(y) /\ FCmp(x, y) >= 0

FLt(x, y) == ~IsNaN(x) /\ ~IsNaN(y) /\ FCmp(x, y) < 0

\* sys.float_info.max and the least positive (subnormal) float
MaxFloat == Round(FALSE, NatSub(NatShl(<< 1 >>, Precision), << 1 >>), MaxExp)

MinFloat == Round(FALSE, << 1 >>, MinExp)

(***************************************************************************)
(* simulate_growth_energy, statement by statement.  A frame is the record  *)
(* of the local names bound so far (the parameters are locals).  Reading a *)
(* name that is not bound raises UnboundLocalError, as in Python.          *)
(***************************************************************************)
BASE_ENERGY_PER_DAY == Lit(100, 10)

CLIMATE_CONTROL_COEFF == Lit(5, 10)

\* the ideal temperature set five degrees too low
IDEAL_TEMPERATURE_Low == Lit(200, 10)

IDEAL_TEMPERATURE == Lit(250, 10)

\* the dict with the factors of low and high exchanged
density_factors_Swapped ==
    << [key |-> "low",
        value |-> [duration_factor |-> Lit(13, 10), climate_factor |-> Lit(12, 10)]],
       [key |-> "medium",
        value |-> [duration_factor |-> Lit(10, 10), climate_factor |-> Lit(10, 10)]],
       [key |-> "high",
        value |-> [duration_factor |-> Lit(8, 10), climate_factor |-> Lit(9, 10)]] >>

\* the dict with a duration factor of 1.1 for medium
density_factors_MediumScaled ==
    << [key |-> "low",
        value |-> [duration_factor |-> Lit(8, 10), climate_factor |-> Lit(9, 10)]],
       [key |-> "medium",
        value |-> [duration_factor |-> Lit(11, 10), climate_factor |-> Lit(10, 10)]],
       [key |-> "high",
        value |-> [duration_factor |-> Lit(13, 10), climate_factor |-> Lit(12, 10)]] >>

\* the dict literal, in insertion order
density_factors ==
    << [key |-> "low",
        value |-> [duration_factor |-> Lit(8, 10), climate_factor |-> Lit(9, 10)]],
       [key |-> "medium",
        value |-> [duration_factor |-> Lit(10, 10), climate_factor |-> Lit(10, 10)]],
       [key |-> "high",
        value |-> [duration_factor |-> Lit(13, 10), climate_factor |-> Lit(12, 10)]] >>

\* key in d
DictContains(d, key) == \E i \in DOMAIN d : d[i].key = key

\* d[key], for a key in d
DictGet(d, key) == d[CHOOSE i \in DOMAIN d : d[i].key = key].value

\* list(d.keys())
DictKeys(d) == [i \in DOMAIN d |-> d[i].key]

NoOutcome == [kind |-> "none"]

Bound(f, names) == names \subseteq DOMAIN f

Store(f, name, v) == (name :> v) @@ f

Continue(next, f) == [pc |-> next, frame |-> f, outcome |-> NoOutcome]

Raise(type, message, f) ==
    [pc |-> "raised", frame |-> f,
     outcome |-> [kind |-> "raise", type |-> type, message |-> message]]

Return(value, f) ==
    [pc |-> "returned", frame |-> f, outcome |-> [kind |-> "return", value |-> value]]

Unbound(f) == Raise("UnboundLocalError", << >>, f)

\* the f-string of line 34: its literal text, then the formatted list of keys
ErrorMessage == << "substrate_density must be one of " >> \o DictKeys(density_factors)

\* line 33 without its test
Stmt33_NoCheck(f) == Continue("L36", f)

\* line 33 with the offending value put into the message
Stmt33_NamesValue(f) ==
    IF ~Bound(f, {"substrate_density"}) THEN Unbound(f)
    ELSE IF ~DictContains(density_factors, f.substrate_density)
         THEN Raise("ValueError", ErrorMessage \o << f.substrate_density >>, f)
         ELSE Continue("L36", f)

\* line 33: if substrate_density not in density_factors: raise ValueError(...)
Stmt33(f) ==
    IF ~Bound(f, {"substrate_density"}) THEN Unbound(f)
    ELSE IF ~DictContains(density_factors, f.substrate_density)
         THEN Raise("ValueError", ErrorMessage, f)
         ELSE Continue("L36", f)

\* density_factors[substrate_density][field], at lines 36 and 37
Lookup(f, field, name, next) ==
    IF ~Bound(f, {"substrate_density"}) THEN Unbound(f)
    ELSE IF ~DictContains(density_factors, f.substrate_density)
         THEN Raise("KeyError", << f.substrate_density >>, f)
         ELSE Continue(next,
                  Store(f, name, DictGet(density_factors, f.substrate_density)[field]))

Stmt36(f) == Lookup(f, "duration_factor", "duration_factor", "L37")

Stmt37(f) == Lookup(f, "climate_factor", "climate_factor", "L40")

\* line 40 behind a check that the duration is not negative
Stmt40_Validating(f) ==
    IF ~Bound(f, {"growth_duration_days", "duration_factor"}) THEN Unbound(f)
    ELSE IF FLt(f.growth_duration_days, Zero(FALSE))
         THEN Raise("ValueError", << "growth_duration_days must be positive" >>, f)
         ELSE Continue("L43", Store(f, "adjusted_growth_duration",
                                     FMul(f.growth_duration_days, f.duration_factor)))

\* line 40: adjusted_growth_duration = growth_duration_days * duration_factor
Stmt40(f) ==
    IF ~Bound(f, {"growth_duration_days", "duration_factor"}) THEN Unbound(f)
    ELSE Continue("L43", Store(f, "adjusted_growth_duration",
                                FMul(f.growth_duration_days, f.duration_factor)))

\* line 43 without abs
Stmt43_NoAbs(f) ==
    IF ~Bound(f, {"temperature_celsius"}) THEN Unbound(f)
    ELSE Continue("L44", Store(f, "temp_diff",
                                FSub(f.temperature_celsius, IDEAL_TEMPERATURE)))

\* line 43: temp_diff = abs(temperature_celsius - IDEAL_TEMPERATURE)
Stmt43(f) ==
    IF ~Bound(f, {"temperature_celsius"}) THEN Unbound(f)
    ELSE Continue("L44", Store(f, "temp_diff",
                                FAbs(FSub(f.temperature_celsius, IDEAL_TEMPERATURE))))

\* line 44: effective_climate_coeff = CLIMATE_CONTROL_COEFF * climate_factor
Stmt44(f) ==
    IF ~Bound(f, {"climate_factor"}) THEN Unbound(f)
    ELSE Continue("L45", Store(f, "effective_climate_coeff",
                                FMul(CLIMATE_CONTROL_COEFF, f.climate_factor)))

\* line 45 without the duration
Stmt45_NoDuration(f) ==
    IF ~Bound(f, {"effective_climate_coeff", "temp_diff", "adjusted_growth_duration"})
    THEN Unbound(f)
    ELSE Continue("L48", Store(f, "climate_control_energy",
                                FMul(f.effective_climate_coeff, f.temp_diff)))

\* line 45: climate_control_energy =
\*              effective_climate_coeff * temp_diff * adjusted_growth_duration
Stmt45(f) ==
    IF ~Bound(f, {"effective_climate_coeff", "temp_diff", "adjusted_growth_duration"})
    THEN Unbound(f)
    ELSE Continue("L48", Store(f, "climate_control_energy",
                                FMul(FMul(f.effective_climate_coeff, f.temp_diff),
                                     f.adjusted_growth_duration)))

\* line 48: base_energy = BASE_ENERGY_PER_DAY * adjusted_growth_duration
Stmt48(f) ==
    IF ~Bound(f, {"adjusted_growth_duration"}) THEN Unbound(f)
    ELSE Continue("L50", Store(f, "base_energy",
                                FMul(BASE_ENERGY_PER_DAY, f.adjusted_growth_duration)))

\* line 50 leaving the climate control energy out
Stmt50_BaseOnly(f) ==
    IF ~Bound(f, {"base_energy", "climate_control_energy"}) THEN Unbound(f)
    ELSE Continue("L52", Store(f, "total_energy", f.base_energy))

\* line 50: total_energy = base_energy + climate_control_energy
Stmt50(f) ==
    IF ~Bound(f, {"base_energy", "climate_control_energy"}) THEN Unbound(f)
    ELSE Continue("L52", Store(f, "total_energy",
                                FAdd(f.base_energy, f.climate_control_energy)))

\* lines 52-60: return {...}
Stmt52(f) ==
    IF ~Bound(f, {"total_energy", "base_energy", "climate_control_energy",
                  "growth_duration_days", "adjusted_growth_duration",
                  "temperature_celsius", "substrate_density"})
    THEN Unbound(f)
    ELSE Return([total_energy_kWh              |-> f.total_energy,
                 base_energy_kWh               |-> f.base_energy,
                 climate_control_energy_kWh    |-> f.climate_control_energy,
                 growth_duration_days          |-> f.growth_duration_days,
                 adjusted_growth_duration_days |-> f.adjusted_growth_duration,
                 temperature_celsius           |-> f.temperature_celsius,
                 substrate_density             |-> f.substrate_density], f)

\* the frame a call starts with: the three parameters bound to the arguments
Enter(a) ==
    [growth_duration_days |-> a.growth_duration_days,
     temperature_celsius  |-> a.temperature_celsius,
     substrate_density    |-> a.substrate_density]

Stmt(line, f) ==
    CASE line = "L33" -> Stmt33(f)
      [] line = "L36" -> Stmt36(f)
      [] line = "L37" -> Stmt37(f)
      [] line = "L40" -> Stmt40(f)
      [] line = "L43" -> Stmt43(f)
      [] line = "L44" -> Stmt44(f)
      [] line = "L45" -> Stmt45(f)
      [] line = "L48" -> Stmt48(f)
      [] line = "L50" -> Stmt50(f)
      [] line = "L52" -> Stmt52(f)

\* one call run alone from its first statement to its outcome
RECURSIVE RunFrom(_, _)
RunFrom(line, f) ==
    LET r == Stmt(line, f)
    IN  IF r.pc \in {"raised", "returned"} THEN r.outcome ELSE RunFrom(r.pc, r.frame)

simulate_growth_energy(a) == RunFrom("L33", Enter(a))

(***************************************************************************)
(* Callers.  Each caller is idle, or inside a call at the statement named  *)
(* by pc, or holds the outcome of its last call.  Every call has a frame   *)
(* of its own: the function keeps no module-level state.                   *)
(***************************************************************************)
VARIABLES pc, args, locals, outcome

vars == << pc, args, locals, outcome >>

MaxDuration == 2

MaxTempOffset == 1

NCallers == 2

\* finite floats only: the contract takes real numbers
Durations ==
    {Lit(5 * n, 1) : n \in -MaxDuration..MaxDuration}
        \cup {Lit(14, 1), Lit(1, 10), MaxFloat, FNeg(MaxFloat), MinFloat, Zero(TRUE)}

Temperatures ==
    {Lit(25 + 5 * n, 1) : n \in -MaxTempOffset..MaxTempOffset}
        \cup {Lit(28, 1), Lit(251, 10), MaxFloat, FNeg(MaxFloat)}

Densities == {"low", "medium", "high", "extreme", "High"}

FewDurations == {Lit(10, 1), MaxFloat}

FewTemperatures == {Lit(25, 1)}

FewDensities == {"high", "extreme"}

\* the locals kept in one module-level place shared by all callers
Slot_Shared(c) == 1

\* where caller c's frame lives: one frame per call
Slot(c) == c

Start(callers) ==
    /\ pc = [c \in callers |-> "idle"]
    /\ args = [c \in callers |-> << >>]
    /\ locals = [c \in callers |-> << >>]
    /\ outcome = [c \in callers |-> NoOutcome]

OneCaller == {1}

Callers == 1..NCallers

Init == Start(OneCaller)

InitConc == Start(Callers)

\* simulate_growth_energy(d, t, s) is entered: the parameters are bound
CallWith(c, D, T, S) ==
    /\ pc[c] \in {"idle", "returned", "raised"}
    /\ \E d \in D, t \in T, s \in S :
         LET a == [growth_duration_days |-> d, temperature_celsius |-> t,
                   substrate_density |-> s]
         IN  /\ args' = [args EXCEPT ![c] = a]
             /\ locals' = [locals EXCEPT ![Slot(c)] = Enter(a)]
    /\ pc' = [pc EXCEPT ![c] = "L33"]
    /\ outcome' = [outcome EXCEPT ![c] = NoOutcome]

Call(c) == CallWith(c, Durations, Temperatures, Densities)

CallFew(c) == CallWith(c, FewDurations, FewTemperatures, FewDensities)

\* caller c executes the statement it is at, with result r
Exec(c, line, r) ==
    /\ pc[c] = line
    /\ pc' = [pc EXCEPT ![c] = r.pc]
    /\ locals' = [locals EXCEPT ![Slot(c)] = r.frame]
    /\ outcome' = [outcome EXCEPT ![c] = r.outcome]
    /\ UNCHANGED args

Line33(c) == Exec(c, "L33", Stmt33(locals[Slot(c)]))

Line36(c) == Exec(c, "L36", Stmt36(locals[Slot(c)]))

Line37(c) == Exec(c, "L37", Stmt37(locals[Slot(c)]))

Line40(c) == Exec(c, "L40", Stmt40(locals[Slot(c)]))

Line43(c) == Exec(c, "L43", Stmt43(locals[Slot(c)]))

Line44(c) == Exec(c, "L44", Stmt44(locals[Slot(c)]))

Line45(c) == Exec(c, "L45", Stmt45(locals[Slot(c)]))

Line48(c) == Exec(c, "L48", Stmt48(locals[Slot(c)]))

Line50(c) == Exec(c, "L50", Stmt50(locals[Slot(c)]))

Line52(c) == Exec(c, "L52", Stmt52(locals[Slot(c)]))

Statement(c) ==
    \/ Line33(c)
    \/ Line36(c)
    \/ Line37(c)
    \/ Line40(c)
    \/ Line43(c)
    \/ Line44(c)
    \/ Line45(c)
    \/ Line48(c)
    \/ Line50(c)
    \/ Line52(c)

Next == \E c \in OneCaller : Call(c) \/ Statement(c)

NextConc == \E c \in Callers : CallFew(c) \/ Statement(c)

\* one caller, the full input sets
Spec == Init /\ [][Next]_vars

\* NCallers callers whose calls interleave statement by statement
SpecConc == InitConc /\ [][NextConc]_vars

(***************************************************************************)
(* Properties.                                                             *)
(***************************************************************************)
Variants == {"low", "medium", "high"}

Called(c) == pc[c] # "idle"

Returned(c) == pc[c] = "returned" /\ outcome[c].kind = "return"

Raised(c) == pc[c] = "raised" /\ outcome[c].kind = "raise"

Result(c) == outcome[c].value

F(n) == Lit(n, 1)

\* whether one of the parts of a message is the string v
Carries(message, v) == \E i \in DOMAIN message : message[i] = v

\* C1: a call whose substrate_density is none of low/medium/high, whatever the
\* duration and temperature, goes from the membership test straight to a raised
\* ValueError: it executes no later statement and returns no result.
C1_InvalidDensityRaises ==
    \A c \in DOMAIN pc :
        (Called(c) /\ args[c].substrate_density \notin Variants) =>
            /\ pc[c] \in {"L33", "raised"}
            /\ pc[c] = "raised" => Raised(c) /\ outcome[c].type = "ValueError"
            /\ outcome[c].kind # "return"

C1_Witness ==
    \E c \in DOMAIN pc :
        /\ Raised(c)
        /\ args[c].substrate_density = "extreme"
        /\ outcome[c].type = "ValueError"
        /\ args[c].growth_duration_days = F(-10)
        /\ args[c].temperature_celsius = MaxFloat

\* C2 as stated: the ValueError raised for an unrecognized substrate_density
\* carries the offending value and the names of the three valid variants.
C2_CarriesValueAndNames ==
    \A c \in DOMAIN pc :
        (Raised(c) /\ outcome[c].type = "ValueError") =>
            /\ Carries(outcome[c].message, args[c].substrate_density)
            /\ \A v \in Variants : Carries(outcome[c].message, v)

\* C2 amended: the message of that ValueError is the fixed text followed by the
\* names of the three valid variants, the same for every offending value; no part
\* of it is taken from the argument.
C2_CarriesNamesOnly ==
    \A c \in DOMAIN pc :
        (Raised(c) /\ outcome[c].type = "ValueError") =>
            /\ outcome[c].message
                 = << "substrate_density must be one of ", "low", "medium", "high" >>
            /\ \A v \in Variants : Carries(outcome[c].message, v)

C2_Witness ==
    \E c \in DOMAIN pc :
        /\ Raised(c)
        /\ outcome[c].type = "ValueError"
        /\ args[c].substrate_density = "High"
        /\ ~Carries(outcome[c].message, "High")
        /\ Carries(outcome[c].message, "high")

\* C6: with a valid substrate_density a call never fails: whatever the duration
\* (zero and negative included) and temperature, no statement raises and the call
\* ends returning a result.  The only error raised at all is the ValueError for an
\* invalid density.
C6_ValidDensityNeverFails ==
    \A c \in DOMAIN pc :
        /\ (Called(c) /\ args[c].substrate_density \in Variants) =>
              /\ pc[c] # "raised"
              /\ outcome[c].kind # "raise"
                /\ pc[c] = "returned" => Returned(c)
        /\ outcome[c].kind = "raise" =>
              /\ outcome[c].type = "ValueError"
              /\ args[c].substrate_density \notin Variants

C6_Witness ==
    \E c \in DOMAIN pc :
        /\ Returned(c)
        /\ FLt(args[c].growth_duration_days, Zero(FALSE))
        /\ args[c].temperature_celsius = FNeg(MaxFloat)
        /\ IsInf(Result(c).total_energy_kWh)

\* the climate_control_energy_kWh of caller c's returned call had its density been s:
\* the caller's own result for its own density, the function run alone otherwise
ClimateFor(c, s) ==
    IF args[c].substrate_density = s
    THEN Result(c).climate_control_energy_kWh
    ELSE simulate_growth_energy(
             [args[c] EXCEPT !.substrate_density = s]).value.climate_control_energy_kWh

ValidReturn(c) == Returned(c) /\ args[c].substrate_density \in Variants

\* C3 as stated: for every duration and temperature, the climate_control_energy_kWh
\* for high is >= that for medium, which is >= that for low.
C3_MonotoneAlways ==
    \A c \in DOMAIN pc :
        ValidReturn(c) =>
            /\ FGe(ClimateFor(c, "high"), ClimateFor(c, "medium"))
            /\ FGe(ClimateFor(c, "medium"), ClimateFor(c, "low"))

\* C3 amended: the same for every growth_duration_days >= 0, as long as none of
\* the three energies is NaN (that of high is NaN when the temperature is 25 and
\* the adjusted duration overflows to infinity).
C3_MonotoneNonNegative ==
    \A c \in DOMAIN pc :
        (/\ ValidReturn(c)
         /\ FGe(args[c].growth_duration_days, Zero(FALSE))
         /\ \A s \in Variants : ~IsNaN(ClimateFor(c, s))) =>
            /\ FGe(ClimateFor(c, "high"), ClimateFor(c, "medium"))
            /\ FGe(ClimateFor(c, "medium"), ClimateFor(c, "low"))

C3_Witness ==
    \E c \in DOMAIN pc :
        /\ ValidReturn(c)
        /\ args[c].growth_duration_days = F(10)
        /\ args[c].temperature_celsius = F(30)
        /\ FLt(ClimateFor(c, "low"), ClimateFor(c, "medium"))
        /\ FLt(ClimateFor(c, "medium"), ClimateFor(c, "high"))

\* C4 as stated: for each density and every duration and temperature, the returned
\* total_energy_kWh == base_energy_kWh + climate_control_energy_kWh.
C4_TotalIsSumAlways ==
    \A c \in DOMAIN pc :
        ValidReturn(c) =>
            FEq(Result(c).total_energy_kWh,
                FAdd(Result(c).base_energy_kWh, Result(c).climate_control_energy_kWh))

\* C4 amended: total_energy_kWh is the float sum of the two other fields; it
\* compares equal to it unless climate_control_energy_kWh is NaN, and then
\* total_energy_kWh is NaN as well (and NaN == NaN is false).
C4_TotalIsSum ==
    \A c \in DOMAIN pc :
        ValidReturn(c) =>
            LET sum == FAdd(Result(c).base_energy_kWh,
                            Result(c).climate_control_energy_kWh)
            IN  /\ ~IsNaN(Result(c).climate_control_energy_kWh) =>
                      FEq(Result(c).total_energy_kWh, sum)
                /\ IsNaN(Result(c).climate_control_energy_kWh) =>
                      IsNaN(Result(c).total_energy_kWh)

C4_Witness ==
    \E c \in DOMAIN pc :
        /\ ValidReturn(c)
        /\ args[c].substrate_density = "low"
        /\ Result(c).base_energy_kWh = F(40)
        /\ Result(c).climate_control_energy_kWh = Lit(54, 10)
        /\ Result(c).total_energy_kWh = Lit(454, 10)

\* C5 as stated: at temperature_celsius == 25 the climate_control_energy_kWh is 0
\* for every density and duration, and total_energy_kWh equals base_energy_kWh.
C5_IdealIsFreeAlways ==
    \A c \in DOMAIN pc :
        (ValidReturn(c) /\ FEq(args[c].temperature_celsius, F(25))) =>
            /\ FEq(Result(c).climate_control_energy_kWh, Zero(FALSE))
            /\ FEq(Result(c).total_energy_kWh, Result(c).base_energy_kWh)

\* C5 amended: the same whenever adjusted_growth_duration_days is finite; when it
\* has overflowed to infinity, climate_control_energy_kWh is 0 * inf = NaN.
C5_IdealIsFree ==
    \A c \in DOMAIN pc :
        (ValidReturn(c) /\ FEq(args[c].temperature_celsius, F(25))) =>
            /\ IsFinite(Result(c).adjusted_growth_duration_days) =>
                  /\ FEq(Result(c).climate_control_energy_kWh, Zero(FALSE))
                  /\ FEq(Result(c).total_energy_kWh, Result(c).base_energy_kWh)
            /\ IsInf(Result(c).adjusted_growth_duration_days) =>
                  IsNaN(Result(c).climate_control_energy_kWh)

C5_Witness ==
    \E c \in DOMAIN pc :
        /\ ValidReturn(c)
        /\ args[c].temperature_celsius = F(25)
        /\ args[c].growth_duration_days = F(10)
        /\ args[c].substrate_density = "low"
        /\ Result(c).climate_control_energy_kWh = Zero(FALSE)
        /\ Result(c).total_energy_kWh = F(80)

\* C7: the call (10.0, 30.0, 'high') returns adjusted_growth_duration_days 13.0,
\* climate_control_energy_kWh 39.0, base_energy_kWh 130.0 and total_energy_kWh
\* 169.0, with temp_diff 5.0 and effective_climate_coeff 0.6, bit for bit.
C7_Scenario ==
    \A c \in DOMAIN pc :
        (/\ Called(c)
         /\ args[c].growth_duration_days = F(10)
         /\ args[c].temperature_celsius = F(30)
         /\ args[c].substrate_density = "high") =>
            /\ pc[c] # "raised"
            /\ Returned(c) =>
                  /\ Result(c).adjusted_growth_duration_days = F(13)
                  /\ Result(c).climate_control_energy_kWh = F(39)
                  /\ Result(c).base_energy_kWh = F(130)
                  /\ Result(c).total_energy_kWh = F(169)
                  /\ locals[Slot(c)].temp_diff = F(5)
                  /\ locals[Slot(c)].effective_climate_coeff = Lit(6, 10)
                  /\ locals[Slot(c)].duration_factor = Lit(13, 10)
                  /\ locals[Slot(c)].climate_factor = Lit(12, 10)

C7_Witness ==
    \E c \in DOMAIN pc :
        /\ Returned(c)
        /\ args[c].growth_duration_days = F(10)
        /\ args[c].temperature_celsius = F(30)
        /\ args[c].substrate_density = "high"
        /\ Result(c).total_energy_kWh = F(169)

\* C8: for density medium the returned adjusted_growth_duration_days equals the
\* growth_duration_days passed in, for every duration and temperature.
C8_MediumKeepsDuration ==
    \A c \in DOMAIN pc :
        (Returned(c) /\ args[c].substrate_density = "medium") =>
            /\ FEq(Result(c).adjusted_growth_duration_days, args[c].growth_duration_days)
            /\ Result(c).adjusted_growth_duration_days = args[c].growth_duration_days

C8_Witness ==
    \E c \in DOMAIN pc :
        /\ Returned(c)
        /\ args[c].substrate_density = "medium"
        /\ args[c].growth_duration_days = Lit(1, 10)
        /\ Result(c).adjusted_growth_duration_days = Lit(1, 10)

NonNegative(x) == FGe(x, Zero(FALSE))

Negative(x) == FLt(x, Zero(FALSE))

\* C10 as stated: for growth_duration_days >= 0, base_energy_kWh and
\* climate_control_energy_kWh are >= 0 and total_energy_kWh >= base_energy_kWh; a
\* negative duration is the only way a returned energy field can be negative.
C10_NonNegativeAlways ==
    \A c \in DOMAIN pc :
        ValidReturn(c) =>
            /\ NonNegative(args[c].growth_duration_days) =>
                  /\ NonNegative(Result(c).base_energy_kWh)
                  /\ NonNegative(Result(c).climate_control_energy_kWh)
                  /\ FGe(Result(c).total_energy_kWh, Result(c).base_energy_kWh)
            /\ (\/ Negative(Result(c).base_energy_kWh)
                \/ Negative(Result(c).climate_control_energy_kWh)
                \/ Negative(Result(c).total_energy_kWh)) =>
                  Negative(args[c].growth_duration_days)

\* C10 amended: for growth_duration_days >= 0, base_energy_kWh >= 0, and, unless
\* climate_control_energy_kWh is NaN (temperature 25 with the adjusted duration
\* overflowed to infinity), climate_control_energy_kWh >= 0 and total_energy_kWh
\* >= base_energy_kWh; a negative duration is the only way a returned energy field
\* can be negative.
C10_NonNegative ==
    \A c \in DOMAIN pc :
        ValidReturn(c) =>
            /\ NonNegative(args[c].growth_duration_days) =>
                  /\ NonNegative(Result(c).base_energy_kWh)
                  /\ ~IsNaN(Result(c).climate_control_energy_kWh) =>
                        /\ NonNegative(Result(c).climate_control_energy_kWh)
                        /\ FGe(Result(c).total_energy_kWh, Result(c).base_energy_kWh)
            /\ (\/ Negative(Result(c).base_energy_kWh)
                \/ Negative(Result(c).climate_control_energy_kWh)
                \/ Negative(Result(c).total_energy_kWh)) =>
                  Negative(args[c].growth_duration_days)

\* a negative duration accepted, with negative energies; the other case is C3_Witness
C10_Witness ==
    \E c \in DOMAIN pc :
        /\ ValidReturn(c)
        /\ args[c].growth_duration_days = F(-10)
        /\ args[c].temperature_celsius = F(20)
        /\ Negative(Result(c).base_energy_kWh)
        /\ Negative(Result(c).climate_control_energy_kWh)
        /\ Negative(Result(c).total_energy_kWh)

Finished(c) == pc[c] \in {"returned", "raised"}

SameOutcome(x, y) ==
    /\ x.kind = y.kind
    /\ x.kind = "raise" => x.type = y.type /\ x.message = y.message
    /\ x.kind = "return" => x.value = y.value

\* the outcome of every finished call is that of the function run alone on the
\* call's own arguments, and finished calls with equal arguments have equal outcomes
OwnArgumentsDecide ==
    /\ \A c \in DOMAIN pc :
          Finished(c) => SameOutcome(outcome[c], simulate_growth_energy(args[c]))
    /\ \A c, o \in DOMAIN pc :
          (Finished(c) /\ Finished(o) /\ args[c] = args[o]) =>
              SameOutcome(outcome[c], outcome[o])

\* a step of caller c leaves everything of the other callers as it was
NoInterference ==
    \A c \in DOMAIN pc :
        pc'[c] # pc[c] =>
            \A o \in DOMAIN pc \ {c} :
                /\ pc'[o] = pc[o]
                /\ locals'[o] = locals[o]
                /\ outcome'[o] = outcome[o]

\* C9: in every interleaving of the statements of several callers' calls, each
\* call's outcome is decided by its own three arguments alone, calls with equal
\* arguments have equal outcomes, and no step of one call changes anything another
\* call reads.
C9_PureUnderInterleaving == []OwnArgumentsDecide /\ [][NoInterference]_vars

\* two callers finished with equal arguments and the same (NaN-carrying) result
C9_Witness ==
    \E c, o \in DOMAIN pc :
        /\ c # o
        /\ Returned(c)
        /\ Returned(o)
        /\ args[c] = args[o]
        /\ args[c].growth_duration_days = MaxFloat
        /\ Result(c) = Result(o)
        /\ IsNaN(Result(c).climate_control_energy_kWh)

====
